---- MODULE Spec2Model ----
(***************************************************************************)
(* Model of the clone engine of go-whosonfirst-clone (src/clone.go):       *)
(* NewWOFClone (status goroutine), WOFClone.CloneMetaFile (initial pass),  *)
(* WOFClone.ProcessRetries (budget gate and retry pass), WOFClone.ClonePath,*)
(* HasChanged, HasHashChanged, Process (fetch and detached write), Fetch   *)
(* and Status.                                                             *)
(*                                                                         *)
(* Row e of the manifest is entry e.  Every goroutine the code starts is a *)
(* process of the model: the coordinating thread (pc), one goroutine per   *)
(* fetched entry that hands a closure to the worker pool (unit), one       *)
(* detached goroutine per fetched body that writes the file (writer), and  *)
(* the status goroutine (reporter).                                        *)
(*                                                                         *)
(* A step of a goroutine is at most one operation on what the goroutines   *)
(* share (an atomic add, a WaitGroup call, a push or pop of the retry      *)
(* pool, the start of a goroutine, taking a worker), together with the     *)
(* return of the call the goroutine was waiting in (reader.Read, the probe *)
(* of a row, the change check and the GET of ClonePath, wg.Wait) and the   *)
(* computation on its own locals up to that operation.  Taken with a       *)
(* neighbouring step are only: the return of a closure, which frees its    *)
(* worker, with the closure's last atomic add; os.Stat and ioutil.WriteFile*)
(* on the file of an entry, which no other goroutine touches at that time; *)
(* the reads of the pool and of Scheduled by ProcessRetries, which nothing *)
(* changes once the barrier is passed.  A position named lNNN is that of a *)
(* goroutine about to run line NNN of clone.go.                            *)
(*                                                                         *)
(* The manifest reader, the file system and the transport are the          *)
(* environment: what they answer to a call is chosen when the call         *)
(* returns.  What belongs to a row is chosen when the code first looks at  *)
(* it: whether entry e has a local file when its row is read, whether its  *)
(* URL can be parsed at the first request made for it.  The local files    *)
(* change only by the writes of the run; the paths of a manifest are       *)
(* distinct.                                                               *)
(***************************************************************************)
EXTENDS Integers, Sequences, FiniteSets, TLC

\* ---------------------------------------------------------------- bounds
MaxEntries == 4          \* a manifest has at most MaxEntries records: its
                         \* rows, and the record the reader fails on if any
Procs == 2               \* procs handed to NewWOFClone: workers of the pool
MaxWriteFailures == 1    \* writes of a run that fail
MaxStale == 1            \* rows of a manifest that have a local copy and are
                         \* fetched all the same

\* ------------------------------------------------------------- constants
MaxRetries == 25         \* c.MaxRetries, percent
Expected == 200          \* the status code Fetch expects

Entries == 1..MaxEntries

\* The double quote character, and the strings of the model: sequences of
\* one-character strings.
QUOTE == "\""
Hashes == {<<"a">>, <<"b">>}
Etags == {<<"a">>, <<QUOTE, "a", QUOTE>>, <<"b">>}

\* Source + rel_path as http.NewRequest finds it: "bad" when it cannot be
\* parsed as a URL (a path such as 100%.geojson), "ok" otherwise
Urls == {"ok", "bad"}

\* What the transport answers to one request: a transport error, or a
\* response with a status code and an Etag header.
Responses ==
    {[neterr |-> TRUE, status |-> 0, etag |-> <<>>]} \cup
    {[neterr |-> FALSE, status |-> s, etag |-> t] : s \in {Expected, 404}, t \in Etags}

\* What utils.HashFile answers: an error, or the hash of the local file.
HashResults ==
    {[err |-> TRUE, hash |-> <<>>]} \cup {[err |-> FALSE, hash |-> h] : h \in Hashes}

VARIABLES
    skip_existing,  \* argument of CloneMetaFile
    force_updates,  \* argument of CloneMetaFile
    pc,             \* position of the coordinating thread in CloneMetaFile
                    \* and ProcessRetries; "panic" once a panic has ended
                    \* the process
    ret,            \* what CloneMetaFile returned: "none" while it runs
    idx,            \* rows of the manifest read so far
    rel_path,       \* the entry of the row, or of the popped path, the
                    \* coordinating thread is working on; 0 between two
                    \* iterations of its loops
    Scheduled, Completed, Success, Error, Skipped,   \* the counters of WOFClone
    retries,        \* c.retries, the LIFO pool: a stack of paths, top last
    wg,             \* counter of the WaitGroup of CloneMetaFile
    rwg,            \* counter of the WaitGroup of ProcessRetries
    unit,           \* per entry: position of its goroutine / pool closure
    attempt,        \* per entry: goroutines started for it so far (0, 1 or 2)
    ensure_changes, \* per entry: the ensure_changes of its queued closure
    cl_err,         \* per entry: cl_err of its closure, TRUE for an error
    remote,         \* per entry: how http.NewRequest found the remote of the
                    \* row, "ok" or "bad"; "unseen" while no request has
                    \* been made for it
    writer,         \* per entry: position of the detached write goroutine
    localFile,      \* per entry: whether the local file exists: "absent",
                    \* "present", or "either" after a write that failed (the
                    \* file is there unless the open is what failed)
    reporter,       \* position of the status goroutine NewWOFClone starts
    tick,           \* flipped by every snapshot Status emits once
                    \* CloneMetaFile has returned and no goroutine of the job
                    \* is left
    \* ---- history variables (observations; no action reads them, except
    \* that stale is what the bound MaxStale caps)
    atBarrier,      \* counters and queue when wg.Wait of CloneMetaFile returned
    gate,           \* outcome of the budget gate: "none", "proceed", "abort"
    stale,          \* rows with a local copy that were decided to be fetched
    lastRow,        \* the inputs and the decision of the row decided by the
                    \* step just taken, or the change check ClonePath made
                    \* in it (kind "check"); NoRow after any other step
                    \* of the job
    dest            \* the destination as the rows decided so far found it:
                    \* "empty" (no row has a local copy), "fresh" (every row
                    \* has one, its fingerprint equal to the validator),
                    \* "mixed", or "any" while no row has been decided

vars == <<skip_existing, force_updates, pc, ret, idx, rel_path,
          Scheduled, Completed, Success, Error, Skipped, retries, wg, rwg,
          unit, attempt, ensure_changes, cl_err, remote, writer, localFile,
          reporter, tick, atBarrier, gate, lastRow, stale, dest>>

counters == <<Scheduled, Completed, Success, Error, Skipped>>
config == <<skip_existing, force_updates>>
units == <<unit, attempt, ensure_changes, cl_err, remote>>
history == <<atBarrier, gate, stale, dest>>
report == <<reporter, tick>>

\* ------------------------------------------------------ pure functions

\* strings.Replace(etag, "\"", "", -1)
RECURSIVE StripQuotes(_)
StripQuotes(s) ==
    IF s = <<>> THEN <<>>
    ELSE IF Head(s) = QUOTE THEN StripQuotes(Tail(s))
    ELSE <<Head(s)>> \o StripQuotes(Tail(s))

\* Fetch(method, url), rsp being what c.client.Do answers if it is reached.
\* http.NewRequest returns a nil request for a url it cannot parse, its error
\* is dropped, and req.Close = true then panics: "panic".  Otherwise "error"
\* (transport error or status # 200) or "ok" (the response is returned).
Fetch(url, rsp) ==
    IF url = "bad" THEN "panic"
    ELSE IF rsp.neterr \/ rsp.status # Expected THEN "error"
    ELSE "ok"

\* Mutant of HasHashChanged: the Etag is compared with its quotes on.
HasHashChanged_NoStrip(local_hash, url, rsp) ==
    CASE Fetch(url, rsp) = "panic" -> "panic"
      [] Fetch(url, rsp) = "error" -> "changed"
      [] OTHER -> IF rsp.etag # local_hash THEN "changed" ELSE "unchanged"

\* HasHashChanged(local_hash, remote), rsp being the answer to its HEAD:
\* "changed" or "unchanged" for the boolean it returns, "panic" when Fetch
\* panics
HasHashChanged(local_hash, url, rsp) ==
    CASE Fetch(url, rsp) = "panic" -> "panic"
      [] Fetch(url, rsp) = "error" -> "changed"
      [] OTHER -> IF StripQuotes(rsp.etag) # local_hash THEN "changed" ELSE "unchanged"

\* HasChanged(local, remote), hr being the answer of utils.HashFile(local)
HasChanged(hr, url, rsp) ==
    IF hr.err THEN "changed"
    ELSE HasHashChanged(hr.hash, url, rsp)

\* The error HasChanged (hasHash FALSE) or HasHashChanged (hasHash TRUE)
\* returns next to its verdict: TRUE when it is not nil
ProbeFails(hasHash, hr, url, rsp) ==
    (~hasHash /\ hr.err) \/ Fetch(url, rsp) = "error"

\* Process(remote, local) up to the detached write: "panic" when Fetch
\* panics, "error" when it returns an error (the GET failed, or its body
\* could not be read), "fetched" when it starts the write and returns nil
Process(url, rsp, bodyOk) ==
    CASE Fetch(url, rsp) = "panic" -> "panic"
      [] Fetch(url, rsp) = "error" -> "error"
      [] OTHER -> IF bodyOk THEN "fetched" ELSE "error"

\* Mutant of ExcessiveErrors: the ratio computed in integers (the quotient
\* is truncated before it is scaled).
ExcessiveErrors_Truncated(to_retry, scheduled) ==
    scheduled > 0 /\ (to_retry \div scheduled) * 100 > MaxRetries

\* Mutant of ExcessiveErrors: the ratio is taken over the fetched entries,
\* the skipped ones left out.
ExcessiveErrors_FetchedOnly(to_retry, scheduled) ==
    to_retry * 100 > MaxRetries * (scheduled - Skipped)

\* pct > c.MaxRetries with pct = (retry_f / scheduled_f) * 100.0.  For counts
\* below 2^50 the float64 quotient and product are on the same side of the
\* ceiling as the exact ones, so the comparison is that of the cross products.
ExcessiveErrors(to_retry, scheduled) == to_retry * 100 > MaxRetries * scheduled

\* The positions of a closure that runs on a worker of the pool: in
\* ClonePath waiting for HasChanged ("head"), in Process waiting for the GET
\* and its body ("get"); back in the closure about to count what ClonePath
\* returned ("tally"), to push the path ("l187") or to increment Completed
\* ("complete")
OnWorker == {"head", "get", "tally", "l187", "complete"}

\* How http.NewRequest finds the remote of entry e: as it found it before,
\* or either way at the first request made for it
UrlsOf(e) == IF remote[e] = "unseen" THEN Urls ELSE {remote[e]}

\* What os.Stat(local) finds for entry e
StatOf(e) == IF localFile[e] = "either" THEN {"absent", "present"} ELSE {localFile[e]}

\* Closures that hold a worker of the pool
Busy == {e \in Entries : unit[e] \in OnWorker}

\* Goroutines started so far to hand a closure to the worker pool
Submitted == Cardinality({e \in Entries : attempt[e] >= 1}) +
             Cardinality({e \in Entries : attempt[e] >= 2})

\* The remote validator a probe obtained: the entity tag without its quotes
Validator(rsp) == SelectSeq(rsp.etag, LAMBDA ch : ch # QUOTE)

\* "The fingerprints are equal": a fingerprint (the manifest's when the row
\* has one, else the hash of the local file) and a validator were obtained
\* and are the same string.
FingerprintsEqual(hasHash, file_hash, hr, url, rsp) ==
    /\ hasHash \/ ~hr.err
    /\ url = "ok" /\ ~rsp.neterr /\ rsp.status = Expected
    /\ Validator(rsp) = (IF hasHash THEN file_hash ELSE hr.hash)

NoRow == [kind |-> "none", exists |-> FALSE, equal |-> FALSE, probed |-> FALSE,
          failed |-> FALSE]

\* ------------------------------------------------------------------ Init

Init ==
    /\ skip_existing \in BOOLEAN
    /\ force_updates \in BOOLEAN
    /\ pc = "start"
    /\ ret = "none"
    /\ idx = 0
    /\ rel_path = 0
    /\ Scheduled = 0 /\ Completed = 0 /\ Success = 0 /\ Error = 0 /\ Skipped = 0
    /\ retries = <<>>
    /\ wg = 0 /\ rwg = 0
    /\ unit = [e \in Entries |-> "none"]
    /\ attempt = [e \in Entries |-> 0]
    /\ ensure_changes = [e \in Entries |-> FALSE]
    /\ cl_err = [e \in Entries |-> FALSE]
    /\ remote = [e \in Entries |-> "unseen"]
    /\ writer = [e \in Entries |-> "none"]
    /\ localFile = [e \in Entries |-> "absent"]
    /\ reporter = "select"
    /\ tick = FALSE
    /\ atBarrier = [passed |-> FALSE, Scheduled |-> 0, Completed |-> 0, retries |-> <<>>]
    /\ gate = "none"
    /\ stale = 0
    /\ lastRow = NoRow
    /\ dest = "any"

\* ------------------------------------------- CloneMetaFile: initial pass

\* csv.NewDictReader succeeds
OpenManifest ==
    /\ pc = "start"
    /\ pc' = "read"
    /\ lastRow' = NoRow
    /\ UNCHANGED <<config, report, ret, idx, rel_path, counters, retries, wg, rwg, units,
                   writer, localFile, history>>

\* csv.NewDictReader fails: return read_err
OpenManifestFails ==
    /\ pc = "start"
    /\ pc' = "done" /\ ret' = "manifest"
    /\ lastRow' = NoRow
    /\ UNCHANGED <<config, report, idx, rel_path, counters, retries, wg, rwg, units,
                   writer, localFile, history>>

\* carry_on of a row whose local copy exists
CarryOn(has_changes) ==
    IF force_updates THEN FALSE
    ELSE IF skip_existing THEN TRUE
    ELSE ~has_changes

\* dest after a row with a path
DestAfter(exists, equal) ==
    IF ~exists /\ dest \in {"any", "empty"} THEN "empty"
    ELSE IF exists /\ equal /\ dest \in {"any", "fresh"} THEN "fresh"
    ELSE "mixed"

\* reader.Read returns a row, and the loop body runs up to its first wait or
\* its first operation on shared state (lines 100-135).  hasPath: row["path"]
\* is there; exists: os.Stat(local) does not say IsNotExist; equal: whether
\* the fingerprints are equal, which nothing looks at here.  A row without a
\* local copy, or read with force_updates, is to be fetched (l169); a row
\* with a local copy read with skip_existing is to be skipped (l160); with
\* neither toggle the comparison of lines 141-146 is called (probe).
ReadRow ==
    /\ pc = "read" /\ idx < MaxEntries
    /\ \E hasPath \in BOOLEAN, exists \in BOOLEAN, equal \in BOOLEAN :
        LET e == idx + 1
            probed == exists /\ ~force_updates /\ ~skip_existing
            carry_on == exists /\ CarryOn(TRUE)
        IN  /\ idx' = e
            /\ IF ~hasPath THEN
                   /\ lastRow' = [NoRow EXCEPT !.kind = "nopath"]
                   /\ dest' = "mixed"
                   /\ UNCHANGED <<pc, rel_path, localFile, stale>>
               ELSE
                   /\ rel_path' = e
                   /\ localFile' = [localFile EXCEPT ![e] = IF exists THEN "present"
                                                             ELSE "absent"]
                   /\ IF probed THEN
                          /\ pc' = "probe"
                          /\ lastRow' = NoRow
                          /\ UNCHANGED <<dest, stale>>
                      ELSE
                          /\ pc' = IF carry_on THEN "l160" ELSE "l169"
                          /\ dest' = DestAfter(exists, equal)
                          /\ stale' = IF exists /\ ~carry_on THEN stale + 1 ELSE stale
                          /\ stale' <= MaxStale
                          /\ lastRow' = [kind |-> IF carry_on THEN "skip" ELSE "fetch",
                                         exists |-> exists, equal |-> equal,
                                         probed |-> FALSE, failed |-> FALSE]
    /\ UNCHANGED <<config, report, ret, counters, retries, wg, rwg, units,
                   writer, atBarrier, gate>>

\* What the comparison of lines 141-146 comes to.  hasHash, file_hash:
\* row["file_hash"]; hr, rsp: what HashFile and the HEAD request answer if
\* asked.  verdict is has_changes or "panic", failed whether an error is
\* returned as well, equal whether the fingerprints are equal, requested
\* whether Fetch was called.
ProbeResult(hasHash, file_hash, hr, url, rsp) ==
    [verdict |-> IF hasHash THEN HasHashChanged(file_hash, url, rsp)
                 ELSE HasChanged(hr, url, rsp),
     requested |-> hasHash \/ ~hr.err,
     failed |-> ProbeFails(hasHash, hr, url, rsp),
     equal |-> FingerprintsEqual(hasHash, file_hash, hr, url, rsp)]

ProbeResults ==
    [url \in Urls |->
        {ProbeResult(hasHash, file_hash, hr, url, rsp) :
            hasHash \in BOOLEAN, file_hash \in Hashes,
            hr \in HashResults, rsp \in Responses}]

\* HasHashChanged or HasChanged returns in the row loop (lines 143-156), or
\* panics in Fetch: nothing of clone.go recovers, the panic unwinds
\* CloneMetaFile and ends the process (pc "panic").
ProbeReturns ==
    /\ pc = "probe"
    /\ \E url \in UrlsOf(rel_path) : \E r \in ProbeResults[url] :
        /\ remote' = [remote EXCEPT ![rel_path] = IF r.requested THEN url ELSE @]
        /\ pc' = IF r.verdict = "panic" THEN "panic"
                 ELSE IF CarryOn(r.verdict # "unchanged") THEN "l160" ELSE "l169"
        /\ dest' = DestAfter(TRUE, r.equal)
        /\ stale' = IF r.verdict # "panic" /\ ~CarryOn(r.verdict # "unchanged")
                    THEN stale + 1 ELSE stale
        /\ stale' <= MaxStale
        /\ lastRow' = [kind |-> IF r.verdict = "panic" THEN "panic"
                                ELSE IF CarryOn(r.verdict # "unchanged") THEN "skip"
                                ELSE "fetch",
                       exists |-> TRUE, equal |-> r.equal, probed |-> TRUE,
                       failed |-> r.failed \/ r.verdict = "panic"]
    /\ UNCHANGED <<config, report, ret, idx, rel_path, counters, retries, wg, rwg,
                   unit, attempt, ensure_changes, cl_err, writer, localFile,
                   atBarrier, gate>>

\* atomic.AddInt64(&c.Scheduled, 1) of a skipped row (line 160)
SkipScheduled ==
    /\ pc = "l160"
    /\ Scheduled' = Scheduled + 1
    /\ pc' = "l161"
    /\ lastRow' = NoRow
    /\ UNCHANGED <<config, report, ret, idx, rel_path, Completed, Success, Error, Skipped,
                   retries, wg, rwg, units, writer, localFile, history>>

\* atomic.AddInt64(&c.Completed, 1) of a skipped row (line 161)
SkipCompleted ==
    /\ pc = "l161"
    /\ Completed' = Completed + 1
    /\ pc' = "l162"
    /\ lastRow' = NoRow
    /\ UNCHANGED <<config, report, ret, idx, rel_path, Scheduled, Success, Error, Skipped,
                   retries, wg, rwg, units, writer, localFile, history>>

\* atomic.AddInt64(&c.Skipped, 1) and continue (lines 162-163)
SkipSkipped ==
    /\ pc = "l162"
    /\ Skipped' = Skipped + 1
    /\ pc' = "read" /\ rel_path' = 0
    /\ lastRow' = NoRow
    /\ UNCHANGED <<config, report, ret, idx, Scheduled, Completed, Success, Error,
                   retries, wg, rwg, units, writer, localFile, history>>

\* wg.Add(1) (line 169)
WgAdd ==
    /\ pc = "l169"
    /\ wg' = wg + 1
    /\ pc' = "l170"
    /\ lastRow' = NoRow
    /\ UNCHANGED <<config, report, ret, idx, rel_path, counters, retries, rwg, units,
                   writer, localFile, history>>

\* atomic.AddInt64(&c.Scheduled, 1) of a row to fetch (line 170)
FetchScheduled ==
    /\ pc = "l170"
    /\ Scheduled' = Scheduled + 1
    /\ pc' = "l172"
    /\ lastRow' = NoRow
    /\ UNCHANGED <<config, report, ret, idx, rel_path, Completed, Success, Error, Skipped,
                   retries, wg, rwg, units, writer, localFile, history>>

\* go func(c, rel_path, ensure_changes) (line 172): the goroutine of the row
\* starts, about to hand its closure to the worker pool.  ensure_changes is
\* true when os.Stat found no local file (lines 116, 166).
GoClosure ==
    /\ pc = "l172"
    /\ unit' = [unit EXCEPT ![rel_path] = "queued"]
    /\ attempt' = [attempt EXCEPT ![rel_path] = 1]
    /\ ensure_changes' = [ensure_changes EXCEPT ![rel_path] =
                                              localFile[rel_path] = "absent"]
    /\ pc' = "read" /\ rel_path' = 0
    /\ lastRow' = NoRow
    /\ UNCHANGED <<config, report, ret, idx, counters, retries, wg, rwg, cl_err, remote,
                   writer, localFile, history>>

\* reader.Read fails with an error other than io.EOF: return err.  The
\* record it fails on is one of the at most MaxEntries of the manifest.
ReadRowFails ==
    /\ pc = "read" /\ idx < MaxEntries
    /\ pc' = "done" /\ ret' = "manifest"
    /\ lastRow' = NoRow
    /\ UNCHANGED <<config, report, idx, rel_path, counters, retries, wg, rwg, units,
                   writer, localFile, history>>

\* reader.Read returns io.EOF: break
ReadEOF ==
    /\ pc = "read"
    /\ pc' = "wait"
    /\ lastRow' = NoRow
    /\ UNCHANGED <<config, report, ret, idx, rel_path, counters, retries, wg, rwg, units,
                   writer, localFile, history>>

\* Mutant of WaitInitial: the coordinating thread goes on once the last row
\* is read, without joining the closures.
WaitInitial_NoJoin ==
    /\ pc = "wait"
    /\ pc' = "gate"
    /\ atBarrier' = [passed |-> TRUE, Scheduled |-> Scheduled,
                     Completed |-> Completed, retries |-> retries]
    /\ lastRow' = NoRow
    /\ UNCHANGED <<config, report, ret, idx, rel_path, counters, retries, wg, rwg, units,
                   writer, localFile, gate, stale, dest>>

\* wg.Wait() returns (line 198)
WaitInitial ==
    /\ pc = "wait" /\ wg = 0
    /\ pc' = "gate"
    /\ atBarrier' = [passed |-> TRUE, Scheduled |-> Scheduled,
                     Completed |-> Completed, retries |-> retries]
    /\ lastRow' = NoRow
    /\ UNCHANGED <<config, report, ret, idx, rel_path, counters, retries, wg, rwg, units,
                   writer, localFile, gate, stale, dest>>

\* ------------------------------------------------ the worker pool closures

\* c.workpool.SendWork gets the closure of entry e a free worker (it blocks
\* while all Procs workers are busy), and the closure calls c.ClonePath,
\* which runs up to its first wait (lines 280-287, 298, 350-361): the change
\* check when the local file exists and ensure_changes is set, else the GET.
SendWork(e) ==
    /\ pc # "panic"
    /\ unit[e] = "queued"
    /\ Cardinality(Busy) < Procs
    /\ \E st \in StatOf(e) :
        /\ unit' = [unit EXCEPT ![e] = IF st = "present" /\ ensure_changes[e]
                                       THEN "head" ELSE "get"]
        /\ localFile' = [localFile EXCEPT ![e] = st]
    /\ ensure_changes' = [ensure_changes EXCEPT ![e] = FALSE]
    /\ lastRow' = NoRow
    /\ UNCHANGED <<config, report, pc, ret, idx, rel_path, counters, retries, wg, rwg,
                   attempt, cl_err, remote, writer, history>>

\* c.HasChanged returns in ClonePath (lines 287-296), hr and rsp being what
\* HashFile and the HEAD request answered, or panics in Fetch.  A panic on a
\* worker's goroutine is recovered by nothing: it ends the process.
HasChangedReturns(e) ==
    /\ pc # "panic"
    /\ unit[e] = "head"
    /\ \E hr \in HashResults, url \in UrlsOf(e), rsp \in Responses :
        LET change == HasChanged(hr, url, rsp) IN
        /\ remote' = [remote EXCEPT ![e] = IF hr.err THEN @ ELSE url]
        /\ unit' = [unit EXCEPT ![e] = CASE change = "panic" -> "panic"
                                         [] change = "unchanged" -> "tally"
                                         [] OTHER -> "get"]
        /\ Skipped' = IF change = "unchanged" THEN Skipped + 1 ELSE Skipped
        /\ cl_err' = [cl_err EXCEPT ![e] = IF change = "unchanged" THEN FALSE ELSE @]
        /\ pc' = IF change = "panic" THEN "panic" ELSE pc
        /\ lastRow' = [NoRow EXCEPT !.kind = "check", !.exists = TRUE, !.probed = TRUE,
                                    !.failed = ProbeFails(FALSE, hr, url, rsp)]
    /\ UNCHANGED <<config, report, ret, idx, rel_path, Scheduled, Completed, Success,
                   Error, retries, wg, rwg, attempt, ensure_changes, writer,
                   localFile, history>>

\* What Process comes to for a url, over what the transport can answer to
\* the GET (rsp) and whether ioutil.ReadAll reads the body (bodyOk)
ProcessResults ==
    [url \in Urls |->
        {Process(url, rsp, bodyOk) : rsp \in Responses, bodyOk \in BOOLEAN}]

\* c.Fetch("GET", remote) and ioutil.ReadAll return in Process (lines
\* 361-378), or Fetch panics.  On an error Process and ClonePath return it;
\* else Process starts the goroutine that writes the file (line 382) and
\* ClonePath returns nil.
FetchReturns(e) ==
    /\ pc # "panic"
    /\ unit[e] = "get"
    /\ \E url \in UrlsOf(e) : \E got \in ProcessResults[url] :
        /\ remote' = [remote EXCEPT ![e] = url]
        /\ unit' = [unit EXCEPT ![e] = IF got = "panic" THEN "panic" ELSE "tally"]
        /\ pc' = IF got = "panic" THEN "panic" ELSE pc
        /\ cl_err' = [cl_err EXCEPT ![e] = (got = "error")]
        /\ writer' = [writer EXCEPT ![e] = IF got = "fetched" THEN "pending" ELSE @]
    /\ lastRow' = NoRow
    /\ UNCHANGED <<config, report, ret, idx, rel_path, counters, retries, wg, rwg,
                   attempt, ensure_changes, localFile, history>>

\* The closure of the initial pass counts what ClonePath returned:
\* atomic.AddInt64(&c.Error, 1) (line 186) or atomic.AddInt64(&c.Success, 1)
\* (line 189).
CountInitial(e) ==
    /\ pc # "panic"
    /\ unit[e] = "tally" /\ attempt[e] = 1
    /\ IF cl_err[e] THEN
           /\ Error' = Error + 1
           /\ unit' = [unit EXCEPT ![e] = "l187"]
           /\ UNCHANGED Success
       ELSE
           /\ Success' = Success + 1
           /\ unit' = [unit EXCEPT ![e] = "complete"]
           /\ UNCHANGED Error
    /\ lastRow' = NoRow
    /\ UNCHANGED <<config, report, pc, ret, idx, rel_path, Scheduled, Completed, Skipped,
                   retries, wg, rwg, attempt, ensure_changes, cl_err, remote, writer,
                   localFile, history>>

\* c.retries.Push(rel_path) (line 187)
PushRetry(e) ==
    /\ pc # "panic"
    /\ unit[e] = "l187"
    /\ retries' = Append(retries, e)
    /\ unit' = [unit EXCEPT ![e] = "complete"]
    /\ lastRow' = NoRow
    /\ UNCHANGED <<config, report, pc, ret, idx, rel_path, counters, wg, rwg,
                   attempt, ensure_changes, cl_err, remote, writer, localFile, history>>

\* Mutant of CountRetry: a retry that fails is pushed back onto the pool.
CountRetry_Requeue(e) ==
    /\ pc # "panic"
    /\ unit[e] = "tally" /\ attempt[e] = 2
    /\ Error' = IF cl_err[e] THEN Error + 1 ELSE Error - 1
    /\ retries' = IF cl_err[e] THEN Append(retries, e) ELSE retries
    /\ unit' = [unit EXCEPT ![e] = "complete"]
    /\ lastRow' = NoRow
    /\ UNCHANGED <<config, report, pc, ret, idx, rel_path, Scheduled, Completed, Success,
                   Skipped, wg, rwg, attempt, ensure_changes, cl_err, remote, writer,
                   localFile, history>>

\* Mutant of CountRetry: a retry that fails leaves Error as it is.
CountRetry_FailOnce(e) ==
    /\ pc # "panic"
    /\ unit[e] = "tally" /\ attempt[e] = 2
    /\ Error' = IF cl_err[e] THEN Error ELSE Error - 1
    /\ unit' = [unit EXCEPT ![e] = "complete"]
    /\ lastRow' = NoRow
    /\ UNCHANGED <<config, report, pc, ret, idx, rel_path, Scheduled, Completed, Success,
                   Skipped, retries, wg, rwg, attempt, ensure_changes, cl_err, remote,
                   writer, localFile, history>>

\* The closure of the retry pass counts what ClonePath returned:
\* atomic.AddInt64(&c.Error, 1) (line 261) or atomic.AddInt64(&c.Error, -1)
\* (line 263).
CountRetry(e) ==
    /\ pc # "panic"
    /\ unit[e] = "tally" /\ attempt[e] = 2
    /\ Error' = IF cl_err[e] THEN Error + 1 ELSE Error - 1
    /\ unit' = [unit EXCEPT ![e] = "complete"]
    /\ lastRow' = NoRow
    /\ UNCHANGED <<config, report, pc, ret, idx, rel_path, Scheduled, Completed, Success,
                   Skipped, retries, wg, rwg, attempt, ensure_changes, cl_err, remote,
                   writer, localFile, history>>

\* atomic.AddInt64(&c.Completed, 1) (line 192, line 266) and the closure
\* returns, which frees its worker; the goroutine that handed it over is
\* still in SendWork.
Complete(e) ==
    /\ pc # "panic"
    /\ unit[e] = "complete"
    /\ Completed' = Completed + 1
    /\ unit' = [unit EXCEPT ![e] = "join"]
    /\ lastRow' = NoRow
    /\ UNCHANGED <<config, report, pc, ret, idx, rel_path, Scheduled, Success, Error,
                   Skipped, retries, wg, rwg, attempt, ensure_changes, cl_err, remote,
                   writer, localFile, history>>

\* SendWork returns in the goroutine of the entry and its deferred wg.Done
\* runs (line 174 for the WaitGroup of CloneMetaFile, line 246 for that of
\* ProcessRetries).
WgDone(e) ==
    /\ pc # "panic"
    /\ unit[e] = "join"
    /\ IF attempt[e] = 1 THEN wg' = wg - 1 /\ UNCHANGED rwg
                         ELSE rwg' = rwg - 1 /\ UNCHANGED wg
    /\ unit' = [unit EXCEPT ![e] = "done"]
    /\ lastRow' = NoRow
    /\ UNCHANGED <<config, report, pc, ret, idx, rel_path, counters, retries,
                   attempt, ensure_changes, cl_err, remote, writer, localFile, history>>

\* ------------------------------------- Process: the detached write goroutine

\* ioutil.WriteFile succeeds (line 384)
WriteFile(e) ==
    /\ pc # "panic"
    /\ writer[e] = "pending"
    /\ writer' = [writer EXCEPT ![e] = "written"]
    /\ localFile' = [localFile EXCEPT ![e] = "present"]
    /\ lastRow' = NoRow
    /\ UNCHANGED <<config, report, pc, ret, idx, rel_path, counters, retries, wg, rwg,
                   units, history>>

\* ioutil.WriteFile fails, then atomic.AddInt64(&c.Success, -1) (lines
\* 384-389).  WriteFile opens the file with O_CREATE|O_TRUNC before it
\* writes: the file is there afterwards unless the open is what failed.
WriteFileFails(e) ==
    /\ pc # "panic"
    /\ writer[e] = "pending"
    /\ Cardinality({f \in Entries : writer[f] \in {"failing", "failed"}}) < MaxWriteFailures
    /\ writer' = [writer EXCEPT ![e] = "failing"]
    /\ localFile' = [localFile EXCEPT ![e] = IF @ = "absent" THEN "either" ELSE @]
    /\ Success' = Success - 1
    /\ lastRow' = NoRow
    /\ UNCHANGED <<config, report, pc, ret, idx, rel_path, Scheduled, Completed, Error,
                   Skipped, retries, wg, rwg, units, history>>

\* ... then atomic.AddInt64(&c.Error, 1) (line 390)
WriteFileFailed(e) ==
    /\ pc # "panic"
    /\ writer[e] = "failing"
    /\ writer' = [writer EXCEPT ![e] = "failed"]
    /\ Error' = Error + 1
    /\ lastRow' = NoRow
    /\ UNCHANGED <<config, report, pc, ret, idx, rel_path, Scheduled, Completed, Success,
                   Skipped, retries, wg, rwg, units, localFile, history>>

\* ---------------------------------------------------------- ProcessRetries

\* ProcessRetries up to the drain loop (lines 212-226), and the return of
\* CloneMetaFile when ProcessRetries returns without draining (lines
\* 202-207).  It reads the length of the pool and Scheduled, which no other
\* goroutine changes once the barrier of line 198 is passed.
BudgetGate ==
    /\ pc = "gate"
    /\ LET to_retry == Len(retries) IN
       IF to_retry > 0 THEN
           IF ExcessiveErrors(to_retry, Scheduled) THEN
               /\ gate' = "abort"
               /\ pc' = "done" /\ ret' = "budget"
           ELSE
               /\ gate' = "proceed"
               /\ pc' = "drain" /\ UNCHANGED ret
       ELSE
           /\ gate' = "proceed"
           /\ pc' = "done" /\ ret' = "nil"
    /\ lastRow' = NoRow
    /\ UNCHANGED <<config, report, idx, rel_path, counters, retries, wg, rwg, units,
                   writer, localFile, atBarrier, stale, dest>>

\* The drain loop finds the pool not empty and pops a path (lines 230-239)
PopRetry ==
    /\ pc = "drain" /\ Len(retries) > 0
    /\ rel_path' = retries[Len(retries)]
    /\ retries' = SubSeq(retries, 1, Len(retries) - 1)
    /\ pc' = "l241"
    /\ lastRow' = NoRow
    /\ UNCHANGED <<config, report, ret, idx, counters, wg, rwg, units, writer, localFile,
                   history>>

\* atomic.AddInt64(&c.Scheduled, 1) of a retry (line 241)
RetryScheduled ==
    /\ pc = "l241"
    /\ Scheduled' = Scheduled + 1
    /\ pc' = "l242"
    /\ lastRow' = NoRow
    /\ UNCHANGED <<config, report, ret, idx, rel_path, Completed, Success, Error, Skipped,
                   retries, wg, rwg, units, writer, localFile, history>>

\* wg.Add(1) of a retry (line 242)
RetryWgAdd ==
    /\ pc = "l242"
    /\ rwg' = rwg + 1
    /\ pc' = "l244"
    /\ lastRow' = NoRow
    /\ UNCHANGED <<config, report, ret, idx, rel_path, counters, retries, wg, units,
                   writer, localFile, history>>

\* go func(c, rel_path) (line 244): the goroutine of the retry starts; its
\* closure sets ensure_changes (line 250).
GoRetry ==
    /\ pc = "l244"
    /\ unit' = [unit EXCEPT ![rel_path] = "queued"]
    /\ attempt' = [attempt EXCEPT ![rel_path] = @ + 1]
    /\ ensure_changes' = [ensure_changes EXCEPT ![rel_path] = TRUE]
    /\ pc' = "drain" /\ rel_path' = 0
    /\ lastRow' = NoRow
    /\ UNCHANGED <<config, report, ret, idx, counters, retries, wg, rwg, cl_err, remote,
                   writer, localFile, history>>

\* The drain loop ends: c.retries.Length() is 0 (line 230)
DrainEnd ==
    /\ pc = "drain" /\ Len(retries) = 0
    /\ pc' = "rwait"
    /\ lastRow' = NoRow
    /\ UNCHANGED <<config, report, ret, idx, rel_path, counters, retries, wg, rwg, units,
                   writer, localFile, history>>

\* Mutant of WaitRetries: ProcessRetries returns once the pool is drained,
\* without joining the retry closures.
WaitRetries_NoJoin ==
    /\ pc = "rwait"
    /\ pc' = "done" /\ ret' = "nil"
    /\ lastRow' = NoRow
    /\ UNCHANGED <<config, report, idx, rel_path, counters, retries, wg, rwg, units,
                   writer, localFile, history>>

\* wg.Wait() of ProcessRetries returns (line 272); ProcessRetries returns
\* true and CloneMetaFile returns nil.
WaitRetries ==
    /\ pc = "rwait" /\ rwg = 0
    /\ pc' = "done" /\ ret' = "nil"
    /\ lastRow' = NoRow
    /\ UNCHANGED <<config, report, idx, rel_path, counters, retries, wg, rwg, units,
                   writer, localFile, history>>

\* ------------------------------------------- NewWOFClone: status goroutine

\* No goroutine of the job is left: every closure has been joined and every
\* write has ended
Quiescent ==
    \A e \in Entries : /\ unit[e] \in {"none", "done"}
                        /\ writer[e] \in {"none", "written", "failed"}

\* One turn of the loop of the goroutine: the select takes the case of
\* time.After, c.Status() logs the counters, and the loop is back at the
\* select.  The case <-c.done is never ready (nothing sends on c.done or
\* closes it), and its break leaves the select only, not the loop: the
\* goroutine has no other position.
StatusTick ==
    /\ pc # "panic"
    /\ reporter = "select"
    /\ tick' = IF ret # "none" /\ Quiescent THEN ~tick ELSE tick
    /\ UNCHANGED <<config, pc, ret, idx, rel_path, counters, retries, wg, rwg, units,
                   writer, localFile, reporter, history, lastRow>>

\* ------------------------------------------------------------ specification

Next ==
    \/ OpenManifest
    \/ OpenManifestFails
    \/ ReadRow
    \/ ProbeReturns
    \/ SkipScheduled
    \/ SkipCompleted
    \/ SkipSkipped
    \/ WgAdd
    \/ FetchScheduled
    \/ GoClosure
    \/ ReadRowFails
    \/ ReadEOF
    \/ WaitInitial
    \/ BudgetGate
    \/ PopRetry
    \/ RetryScheduled
    \/ RetryWgAdd
    \/ GoRetry
    \/ DrainEnd
    \/ WaitRetries
    \/ \E e \in Entries : SendWork(e)
    \/ \E e \in Entries : HasChangedReturns(e)
    \/ \E e \in Entries : FetchReturns(e)
    \/ \E e \in Entries : CountInitial(e)
    \/ \E e \in Entries : PushRetry(e)
    \/ \E e \in Entries : CountRetry(e)
    \/ \E e \in Entries : Complete(e)
    \/ \E e \in Entries : WgDone(e)
    \/ \E e \in Entries : WriteFile(e)
    \/ \E e \in Entries : WriteFileFails(e)
    \/ \E e \in Entries : WriteFileFailed(e)
    \/ StatusTick

Spec == Init /\ [][Next]_vars

\* The steps of the thread that runs CloneMetaFile, of the goroutines and
\* closures of the entries, and of the write goroutines
Coordinator ==
    \/ OpenManifest \/ OpenManifestFails
    \/ ReadRow \/ ProbeReturns \/ SkipScheduled \/ SkipCompleted \/ SkipSkipped
    \/ WgAdd \/ FetchScheduled \/ GoClosure \/ ReadRowFails \/ ReadEOF
    \/ WaitInitial \/ BudgetGate
    \/ PopRetry \/ RetryScheduled \/ RetryWgAdd \/ GoRetry \/ DrainEnd \/ WaitRetries

Workers ==
    \E e \in Entries :
        \/ SendWork(e) \/ HasChangedReturns(e)
        \/ FetchReturns(e)
        \/ CountInitial(e) \/ PushRetry(e) \/ CountRetry(e)
        \/ Complete(e) \/ WgDone(e)

Writers == \E e \in Entries : WriteFile(e) \/ WriteFileFails(e) \/ WriteFileFailed(e)

\* A call of CloneMetaFile with neither toggle set.  The toggles only choose
\* between the skip and the fetch of a row that has a local copy, and with
\* neither set a row can go either way, as the probe answers.
DefaultInit == Init /\ ~skip_existing /\ ~force_updates

DefaultSpec == DefaultInit /\ [][Next]_vars

\* The runs in which the Go scheduler lets every goroutine that can take a
\* step take one, every call to the manifest reader, the transport and the
\* file system returns, and the timer of the status goroutine fires.
FairSpec ==
    /\ DefaultInit /\ [][Next]_vars
    /\ WF_vars(Coordinator)
    /\ WF_vars(Workers)
    /\ WF_vars(Writers)
    /\ WF_vars(StatusTick)

\* The positions of the coordinating thread inside an iteration of the row
\* loop, and inside an iteration of the drain loop
InRow == {"probe", "l160", "l161", "l162", "l169", "l170", "l172"}
InRetry == {"l241", "l242", "l244"}

TypeOK ==
    /\ idx \in 0..MaxEntries
    /\ rel_path \in 0..MaxEntries
    /\ pc \in {"start", "read", "wait", "gate", "drain", "rwait", "done", "panic"}
              \cup InRow \cup InRetry
    /\ pc \in InRow \cup InRetry => rel_path # 0
    /\ ret \in {"none", "nil", "budget", "manifest"}
    /\ unit \in [Entries -> {"none", "queued", "join", "done", "panic"} \cup OnWorker]
    /\ Cardinality(Busy) <= Procs
    /\ remote \in [Entries -> Urls \cup {"unseen"}]
    /\ writer \in [Entries -> {"none", "pending", "failing", "written", "failed"}]
    /\ localFile \in [Entries -> {"absent", "present", "either"}]
    /\ reporter \in {"select", "stopped"}
    /\ tick \in BOOLEAN

\* ------------------------------------------------------------------ claims

\* The paths on the retry pool, and those that were on it at the barrier
Queued == {retries[i] : i \in 1..Len(retries)}
QueuedAtBarrier == {atBarrier.retries[i] : i \in 1..Len(atBarrier.retries)}

\* The entries whose closure of the initial pass ended with an error
FailedInitially ==
    {e \in Entries : attempt[e] = 2 \/ (attempt[e] = 1 /\ unit[e] = "done" /\ cl_err[e])}

\* The share of failed paths among the scheduled ones, taken at the barrier,
\* is strictly above the ceiling
BudgetExceeded ==
    /\ atBarrier.passed
    /\ Len(atBarrier.retries) * 100 > MaxRetries * atBarrier.Scheduled

\* C1: once the barrier of the initial pass is passed with more than
\* MaxRetries percent of the scheduled paths on the retry pool, the gate
\* aborts: CloneMetaFile returns the budget error, no retry closure is ever
\* submitted, Scheduled and Completed keep their values of the barrier, and
\* the pool still holds every path that failed in the initial pass.
BudgetAbort ==
    (BudgetExceeded /\ pc # "gate") =>
        /\ pc = "done" /\ ret = "budget" /\ gate = "abort"
        /\ \A e \in Entries : attempt[e] <= 1
        /\ Scheduled = atBarrier.Scheduled
        /\ Completed = atBarrier.Completed
        /\ retries = atBarrier.retries
        /\ retries # <<>>
        /\ Queued = FailedInitially

BudgetAbortWitness ==
    /\ ret = "budget"
    /\ Len(retries) = 2 /\ Scheduled = 4

\* C2: no run is aborted by what happens to an entry, and a run that got past
\* the manifest returns the budget error exactly when the budget was exceeded
\* at the gate, and nil in every other case, whatever the closures of either
\* pass ended with.
ExitCondition ==
    /\ pc # "panic"
    /\ (pc = "done" /\ ret # "manifest") =>
           /\ ret \in {"nil", "budget"}
           /\ (ret = "budget") <=> BudgetExceeded

\* C3: the gate is evaluated only when every closure of the initial pass has
\* completed, a retry closure exists only after the gate has said proceed,
\* and CloneMetaFile returns nil only when every retry closure has completed.
PhaseOrdering ==
    /\ (atBarrier.passed \/ gate # "none") =>
           \A e \in Entries : attempt[e] >= 1 =>
               (attempt[e] = 2 \/ unit[e] = "done")
    /\ gate # "none" => atBarrier.passed
    /\ (\E e \in Entries : attempt[e] = 2) => gate = "proceed"
    /\ ret = "nil" => \A e \in Entries : unit[e] \in {"none", "done"}

PhaseOrderingWitness ==
    /\ ret = "nil" /\ gate = "proceed"
    /\ \E e \in Entries : attempt[e] = 2 /\ unit[e] = "done"
    /\ \E e \in Entries : attempt[e] = 1 /\ unit[e] = "done"

\* C4: at the step in which wg.Wait of CloneMetaFile returns, Completed
\* equals Success + Error + Skipped.
BalanceAtBarrier ==
    [][(pc = "wait" /\ pc' = "gate") =>
           Completed' = Success' + Error' + Skipped']_vars

\* C5: when the retry pass has run to completion the pool is empty, Scheduled
\* and Completed have grown by the number of paths that failed in the initial
\* pass, every such path has had exactly one more closure, which is done, and
\* no entry ever has more than two closures; a retry that fails pushes nothing.
RetryPostcondition ==
    /\ \A e \in Entries : attempt[e] <= 2
    /\ (ret = "nil" /\ gate = "proceed") =>
        /\ retries = <<>>
        /\ Scheduled = atBarrier.Scheduled + Len(atBarrier.retries)
        /\ Completed = atBarrier.Completed + Len(atBarrier.retries)
        /\ Cardinality(QueuedAtBarrier) = Len(atBarrier.retries)
        /\ \A e \in Entries : attempt[e] = 2 <=> e \in QueuedAtBarrier
        /\ \A e \in QueuedAtBarrier : unit[e] = "done"

RetryPostconditionWitness ==
    /\ ret = "nil" /\ gate = "proceed"
    /\ Len(atBarrier.retries) = 1
    /\ \E e \in QueuedAtBarrier : cl_err[e]

\* C6: a run over an empty destination in which some entries failed in the
\* initial pass, within the budget, and every retry succeeded returns nil
\* with Error = 0 and Success = the number of rows, once its writes are done.
RecoveredCountedSucceeded ==
    (/\ ret = "nil" /\ gate = "proceed" /\ dest = "empty"
     /\ QueuedAtBarrier # {}
     /\ \A e \in QueuedAtBarrier : unit[e] = "done" /\ ~cl_err[e]
     /\ \A e \in Entries : writer[e] \in {"none", "written"})
    => (Error = 0 /\ Success = idx)

\* C7: an entry of the initial pass whose fetch succeeded and whose write
\* fails has the outcome Failed: the failure is known before its closure
\* completes and its path is pushed onto the retry pool (and so is on the pool
\* or has been retried).
StoreFailureFolded ==
    \A e \in Entries :
        (writer[e] \in {"failing", "failed"} /\ unit[e] = "done") =>
            (e \in Queued \/ attempt[e] = 2)

\* The entries whose fetch or store is going on: the closure has a worker,
\* or the write it started has not ended
Executing ==
    Busy \cup {e \in Entries : writer[e] \in {"pending", "failing"}}

\* C8: at most Procs units of work (fetch and store of one entry) execute at
\* the same time.
ConcurrencyBound == Cardinality(Executing) <= Procs

\* The policy C9 names, as a function of the four conditions
ReferenceDecision(exists, force, skip, equal) ==
    IF ~exists THEN "fetch"
    ELSE IF force THEN "fetch"
    ELSE IF skip THEN "skip"
    ELSE IF equal THEN "skip"
    ELSE "fetch"

\* C9: every row with a path is decided as the reference policy says; a row
\* skipped because skip_existing is set is skipped without a probe; a skipped
\* row goes on to add one to Scheduled, Completed and Skipped and hands
\* nothing to the worker pool, a fetched row goes on to add one to Scheduled
\* and to hand over a closure.
ChangeDetectionPolicy ==
    [][/\ lastRow'.kind \in {"skip", "fetch", "panic"} =>
              /\ lastRow'.kind = ReferenceDecision(lastRow'.exists, force_updates,
                                                   skip_existing, lastRow'.equal)
              /\ (force_updates \/ skip_existing) => ~lastRow'.probed
              /\ lastRow'.kind = "skip" => pc' = "l160"
              /\ lastRow'.kind = "fetch" => pc' = "l169"
       /\ (pc \in InRow /\ pc' \notin {pc, "panic"}) =>
              <<pc, pc'>> \in {<<"probe", "l160">>, <<"probe", "l169">>,
                               <<"l160", "l161">>, <<"l161", "l162">>,
                               <<"l162", "read">>, <<"l169", "l170">>,
                               <<"l170", "l172">>, <<"l172", "read">>}
       /\ (pc = "l160" /\ pc' = "l161") => Scheduled' = Scheduled + 1
       /\ (pc = "l161" /\ pc' = "l162") => Completed' = Completed + 1
       /\ (pc = "l162" /\ pc' = "read") =>
              /\ Skipped' = Skipped + 1
              /\ attempt'[rel_path] = 0 /\ unit'[rel_path] = "none" /\ wg' = wg
       /\ (pc = "l170" /\ pc' = "l172") => Scheduled' = Scheduled + 1
       /\ (pc = "l172" /\ pc' = "read") =>
              /\ unit'[rel_path] = "queued" /\ attempt'[rel_path] = 1
              /\ Completed' = Completed /\ Skipped' = Skipped
      ]_vars

\* The rows read whose iteration of the row loop has ended
RowsDone == IF pc \in InRow THEN idx - 1 ELSE idx

\* C10: with neither toggle set, while every row read has a local copy whose
\* fingerprint equals the validator, every row is skipped: no closure is
\* submitted (so no GET is issued and nothing is written), Skipped, Scheduled
\* and Completed equal the number of rows (the row being skipped is counted
\* in Scheduled, then in Completed, then in Skipped), Success and Error stay
\* 0, and the run does not end with the budget error.
Idempotence ==
    (dest = "fresh" /\ ~force_updates /\ ~skip_existing) =>
        /\ pc \in InRow => pc \in {"probe", "l160", "l161", "l162"}
        /\ Skipped = RowsDone
        /\ Scheduled = RowsDone + (IF pc \in {"l161", "l162"} THEN 1 ELSE 0)
        /\ Completed = RowsDone + (IF pc = "l162" THEN 1 ELSE 0)
        /\ Success = 0 /\ Error = 0
        /\ Submitted = 0
        /\ \A e \in Entries : unit[e] = "none" /\ writer[e] = "none"
        /\ retries = <<>>
        /\ pc = "done" => ret \in {"nil", "manifest"}

IdempotenceWitness ==
    /\ dest = "fresh" /\ ~force_updates /\ ~skip_existing
    /\ ret = "nil" /\ idx >= 2 /\ Skipped = idx

\* C11: a row with a local copy, read with neither toggle set, whose probe
\* (the hash of the local file or the HEAD request) fails goes on to be
\* handed to the worker pool as a fetch and adds nothing to Skipped; a
\* change check inside ClonePath that fails adds nothing to Skipped either
\* and goes on to the GET.
ProbeFailsOpen ==
    [][/\ (lastRow'.kind \in {"skip", "fetch", "panic"} /\ lastRow'.failed) =>
              /\ lastRow'.kind = "fetch" /\ pc' = "l169"
              /\ Skipped' = Skipped /\ Completed' = Completed
       /\ (lastRow'.kind = "check" /\ lastRow'.failed) =>
              /\ Skipped' = Skipped
              /\ \E e \in Entries : unit[e] = "head" /\ unit'[e] = "get"
      ]_vars

\* C12: when CloneMetaFile has returned a manifest error, no entry has been
\* processed: Scheduled and Completed are 0, no closure has been handed to
\* the worker pool and none is queued or running.
ManifestErrorProcessesNothing ==
    ret = "manifest" =>
        /\ Scheduled = 0 /\ Completed = 0
        /\ Submitted = 0
        /\ \A e \in Entries : unit[e] = "none" /\ writer[e] = "none"

\* C13: no step decreases Scheduled, Completed, Success or Skipped, and a
\* step that decreases Error is the return of a retry closure whose ClonePath
\* ended without an error.
CounterMonotonicity ==
    [][/\ Scheduled' >= Scheduled /\ Completed' >= Completed
       /\ Success' >= Success /\ Skipped' >= Skipped
       /\ Error' < Error =>
              \E e \in Entries :
                  /\ attempt[e] = 2 /\ ~cl_err[e]
                  /\ unit[e] = "tally" /\ unit'[e] = "complete"
      ]_vars

\* C14: at the step in which wg.Wait of ProcessRetries returns and
\* CloneMetaFile returns nil, Completed equals Success + Error + Skipped,
\* whatever the retries came to (no write of the run having failed).
BalanceAfterRetries ==
    [][(/\ pc = "rwait" /\ pc' = "done" /\ ret' = "nil"
        /\ \A e \in Entries : writer'[e] \notin {"failing", "failed"})
       => Completed' = Success' + Error' + Skipped']_vars

\* C15: once CloneMetaFile has returned, the status goroutine eventually
\* stops (and so emits no further snapshot).
ReporterStops == (ret # "none") ~> (reporter = "stopped")

\* C16: the gate is evaluated at most once, and not before the barrier.  When
\* the pool is empty at the barrier (as it is when Scheduled is 0) the gate
\* proceeds, no retry closure is submitted and CloneMetaFile returns nil.
\* When the pool holds failed paths and failed * 100 <= MaxRetries *
\* Scheduled, skipped rows counted in Scheduled, the gate proceeds to the
\* retry pass and CloneMetaFile does not return the budget error.
GateWithinCeiling ==
    /\ gate # "none" => pc # "gate"
    /\ atBarrier.passed => (pc = "gate" <=> gate = "none")
    /\ atBarrier.Scheduled = 0 => atBarrier.retries = <<>>
    /\ (atBarrier.passed /\ pc # "gate" /\ atBarrier.retries = <<>>) =>
           /\ gate = "proceed" /\ pc = "done" /\ ret = "nil"
           /\ \A e \in Entries : attempt[e] <= 1
           /\ Scheduled = atBarrier.Scheduled
    /\ (/\ atBarrier.passed /\ pc # "gate" /\ atBarrier.retries # <<>>
        /\ Len(atBarrier.retries) * 100 <= MaxRetries * atBarrier.Scheduled) =>
           /\ gate = "proceed" /\ ret # "budget"
           /\ pc \in {"drain", "rwait", "done"} \cup InRetry
           /\ pc = "done" => ret = "nil"

\* One failure of four scheduled, three of them skipped: the ratio is at the
\* ceiling, and the retry pass has run
GateWithinCeilingWitness ==
    /\ atBarrier.passed /\ Len(atBarrier.retries) = 1 /\ atBarrier.Scheduled = 4
    /\ Skipped >= 3
    /\ gate = "proceed" /\ ret = "nil"
    /\ \E e \in Entries : attempt[e] = 2

\* Nothing scheduled: the gate proceeds on an empty manifest
GateOnEmptyManifest ==
    atBarrier.passed /\ atBarrier.Scheduled = 0 /\ gate = "proceed" /\ ret = "nil"

\* The states of a job: Idle, InitialPass (reading and deciding rows, then
\* waiting at the barrier), BudgetCheck, RetryPass (draining the pool, then
\* waiting for the retries), Done or AbortedDone once CloneMetaFile has
\* returned, and Crashed once a panic has ended the process
Phase ==
    CASE pc = "start" -> "Idle"
      [] pc \in {"read", "wait"} \cup InRow -> "InitialPass"
      [] pc = "gate" -> "BudgetCheck"
      [] pc \in {"drain", "rwait"} \cup InRetry -> "RetryPass"
      [] pc = "done" /\ ret = "budget" -> "AbortedDone"
      [] pc = "done" /\ ret # "budget" -> "Done"
      [] pc = "panic" -> "Crashed"

\* The transitions of the job; a gate that finds the pool empty goes to Done
\* through a retry pass with nothing to do
PhaseEdges ==
    {<<"Idle", "InitialPass">>, <<"InitialPass", "BudgetCheck">>,
     <<"BudgetCheck", "RetryPass">>, <<"BudgetCheck", "AbortedDone">>,
     <<"BudgetCheck", "Done">>, <<"RetryPass", "Done">>}

\* C17: in every fair run CloneMetaFile eventually returns, and in the end
\* no closure is left queued or running and no write is left unfinished; a
\* job whose manifest is read moves along the transitions of the state
\* machine; nothing is pushed onto the retry pool during the retry pass.
Termination ==
    /\ <>[](/\ pc = "done" /\ ret # "none"
            /\ \A e \in Entries : /\ unit[e] \in {"none", "done"}
                                   /\ writer[e] \in {"none", "written", "failed"})
    /\ [][(Phase' # Phase /\ ret' # "manifest") => <<Phase, Phase'>> \in PhaseEdges]_vars
    /\ [][(pc \in {"drain", "rwait"} \cup InRetry) => Len(retries') <= Len(retries)]_vars

\* C18: Completed never exceeds Scheduled, and when CloneMetaFile has returned
\* nil or the budget error the two are equal and no closure is queued or
\* running.
CompletionAccounting ==
    /\ Completed <= Scheduled
    /\ ret \in {"nil", "budget"} =>
           /\ Completed = Scheduled
           /\ \A e \in Entries : unit[e] \in {"none", "done"}

\* A return after a retry pass: a skipped row, fetched rows and a retry
CompletionAccountingWitness ==
    /\ ret = "nil" /\ Completed = Scheduled /\ Scheduled = MaxEntries + 1
    /\ Skipped >= 1
    /\ \E e \in Entries : attempt[e] = 2

\* C19: the five counters are never negative.
CountersNonNegative ==
    /\ Scheduled >= 0 /\ Completed >= 0
    /\ Success >= 0 /\ Error >= 0 /\ Skipped >= 0

\* The entries whose closure of the initial pass and whose retry both ended
\* with an error
FailedTwice ==
    {e \in Entries : attempt[e] = 2 /\ unit[e] = "done" /\ cl_err[e]}

\* CloneMetaFile has returned nil after a retry pass, and every write of the
\* run has ended without a failure
ReturnedAfterRetries ==
    /\ ret = "nil" /\ gate = "proceed" /\ atBarrier.retries # <<>>
    /\ \A e \in Entries : writer[e] \in {"none", "written"}

\* C20, as stated: after a retry pass Error is the number of entries whose
\* last attempt failed, an entry that failed twice counted once.
FinalErrorTally ==
    ReturnedAfterRetries => Error = Cardinality(FailedTwice)

\* C20, amended: after a retry pass Error is twice the number of entries that
\* failed in the initial pass and again in their retry (each of the two
\* failures adds one); an entry recovered by its retry adds nothing.
FinalErrorTallyAmended ==
    ReturnedAfterRetries => Error = 2 * Cardinality(FailedTwice)

\* An entry failed twice
FinalErrorTallyWitness ==
    ReturnedAfterRetries /\ FailedTwice # {} /\ Error = 2

\* An entry failed once and was recovered by its retry
FinalErrorTallyRecovered ==
    ReturnedAfterRetries /\ FailedTwice = {} /\ Error = 0
====
